---- MODULE Spec2Model ----
(***************************************************************************)
(* Verification model of PyDSS/utils/simulation_utils.py                   *)
(* (CircularBufferHelper, TimerStats, the simulation time index and the    *)
(* load-shape alignment) and of PyDSS/pyControllers/models.py              *)
(* (PvVoltageRideThruModel and its update_settings validator).             *)
(*                                                                         *)
(* Numbers: Python floats are modelled by integers and exact fractions     *)
(* [num, den]; datetimes and timedeltas by integer seconds.                *)
(***************************************************************************)
EXTENDS Integers, Sequences, FiniteSets

VARIABLES
    \* CircularBufferHelper
    _buf,           \* deque(maxlen=window_size), oldest sample first
    _window_size,   \* the capacity given to __init__
    appended,       \* history: every value passed to append(), in order
    ret,            \* return value of the most recent call on the buffer
    \* TimerStats
    _count, _max, _min, _total,
    recorded,       \* history: every duration passed to update(), in order
    stats,          \* return value of the most recent call on the timer
    \* create_loadshape_pmult_dataframe_for_simulation and its callees
    settings,       \* the project settings (simulation.toml)
    loadshape,      \* the load shape selected in OpenDSS
    pc,             \* the statement the call has reached
    df,             \* the load-shape dataframe, a sequence of rows [t, pmult]
    start_time, end_time, step_time,
    cur_time, data, \* locals of create_datetime_index_from_settings
    simulation_index,
    result,         \* what the call returned or raised
    \* PvVoltageRideThruModel
    raw,            \* the keyword arguments given to the constructor
    model,          \* the fields of the instance
    state,          \* Unvalidated, Validated or ValidationError
    assigned        \* number of attribute assignments since construction

bufVars == <<_buf, _window_size, appended, ret>>
timerVars == <<_count, _max, _min, _total, recorded, stats>>
clockVars == <<settings, loadshape, pc, df, start_time, end_time, step_time,
               cur_time, data, simulation_index, result>>
modelVars == <<raw, model, state, assigned>>
vars == <<bufVars, timerVars, clockVars, modelVars>>

(***************************************************************************)
(* Bounds of the model                                                     *)
(***************************************************************************)
MaxWindow == 3      \* window sizes 1..MaxWindow
MaxAppends == 3     \* appends per buffer
MaxVal == 3         \* scalar samples 1..MaxVal
MaxWidth == 2       \* list samples of 1..MaxWidth elements

RECURSIVE SumSeq(_)
SumSeq(s) == IF s = <<>> THEN 0 ELSE s[1] + SumSeq(Tail(s))

\* The last n elements of s (all of s when it is shorter).
LastN(s, n) == IF Len(s) <= n THEN s ELSE SubSeq(s, Len(s) - n + 1, Len(s))

(***************************************************************************)
(* CircularBufferHelper                                                    *)
(***************************************************************************)
\* A Python value passed to append(): a number or a list of numbers.
Scalar(x) == [kind |-> "scalar", v |-> <<x>>]
List(xs) == [kind |-> "list", v |-> xs]
ListElems == {1, 2}
Samples ==
    {Scalar(x) : x \in 1..MaxVal}
        \cup {List(xs) : xs \in UNION {[1..w -> ListElems] : w \in 1..MaxWidth}}

\* Python return values of the buffer's methods.
NoRows == <<>>
None == [kind |-> "None", num |-> 0, den |-> 1, rows |-> NoRows]
NaN == [kind |-> "nan", num |-> 0, den |-> 1, rows |-> NoRows]
Float(n, d) == [kind |-> "float", num |-> n, den |-> d, rows |-> NoRows]
NdArray(rows) == [kind |-> "ndarray", num |-> 0, den |-> 1, rows |-> rows]
Raised(exc) == [kind |-> exc, num |-> 0, den |-> 1, rows |-> NoRows]
\* One entry of the matrix returned in list mode.
CellNaN == [nan |-> TRUE, num |-> 0, den |-> 1]
Cell(n, d) == [nan |-> FALSE, num |-> n, den |-> d]

\* deque.append on a deque with maxlen: the oldest element is dropped when full.
DequeAppendUnbounded(buf, maxlen, val) == Append(buf, val)
DequeAppend(buf, maxlen, val) ==
    IF maxlen = 0 THEN buf
    ELSE IF Len(buf) < maxlen THEN Append(buf, val)
    ELSE Append(Tail(buf), val)

\* pd.DataFrame(buf): one row per sample, short rows padded with NaN.
FrameWidth(buf) ==
    LET lens == {Len(buf[i].v) : i \in 1..Len(buf)}
    IN  CHOOSE m \in lens : \A k \in lens : k <= m
FrameCell(buf, i, j) ==
    IF j <= Len(buf[i].v) THEN Cell(buf[i].v[j], 1) ELSE CellNaN

\* DataFrame.rolling(window).mean(): min_periods defaults to the window, so
\* row i is NaN unless rows i-window+1..i exist and none is NaN in the column.
RollingCellExpanding(buf, window, i, j) ==
    LET lo == IF i < window THEN 1 ELSE i - window + 1
        rows == lo..i
    IN  IF \E r \in rows : FrameCell(buf, r, j).nan THEN CellNaN
        ELSE Cell(SumSeq([k \in 1..(i - lo + 1) |-> buf[lo + k - 1].v[j]]), i - lo + 1)
RollingCell(buf, window, i, j) ==
    IF i < window THEN CellNaN
    ELSE LET rows == (i - window + 1)..i
         IN  IF \E r \in rows : FrameCell(buf, r, j).nan THEN CellNaN
             ELSE Cell(SumSeq([k \in 1..window |-> buf[i - window + k].v[j]]), window)
RollingMean(buf, window) ==
    [i \in 1..Len(buf) |-> [j \in 1..FrameWidth(buf) |-> RollingCell(buf, window, i, j)]]

IsList(s) == s.kind = "list"
AllLists(buf) == \A i \in 1..Len(buf) : IsList(buf[i])
AllScalars(buf) == \A i \in 1..Len(buf) : ~IsList(buf[i])
ScalarValues(buf) == [i \in 1..Len(buf) |-> buf[i].v[1]]

\* CircularBufferHelper.average().  A buffer mixing numbers and lists makes
\* pandas (list mode) or sum() (scalar mode) raise TypeError.
AverageNoWarmUp(buf, window) ==
    IF buf = <<>> THEN Raised("AssertionError")
    ELSE IF IsList(buf[1]) THEN
        IF AllLists(buf) THEN NdArray(RollingMean(buf, window)) ELSE Raised("TypeError")
    ELSE IF AllScalars(buf) THEN Float(SumSeq(ScalarValues(buf)), Len(buf))
    ELSE Raised("TypeError")
Average(buf, window) ==
    IF buf = <<>> THEN Raised("AssertionError")
    ELSE IF IsList(buf[1]) THEN
        IF AllLists(buf) THEN NdArray(RollingMean(buf, window)) ELSE Raised("TypeError")
    ELSE IF Len(buf) < window THEN NaN
    ELSE IF AllScalars(buf) THEN Float(SumSeq(ScalarValues(buf)), Len(buf))
    ELSE Raised("TypeError")

BufInit ==
    /\ _window_size \in 1..MaxWindow
    /\ _buf = <<>>
    /\ appended = <<>>
    /\ ret = None

\* append(val): no check of val; returns None.
append(val) ==
    /\ Len(appended) < MaxAppends
    /\ _buf' = DequeAppend(_buf, _window_size, val)
    /\ appended' = Append(appended, val)
    /\ ret' = None
    /\ UNCHANGED <<_window_size, timerVars, clockVars, modelVars>>

average ==
    /\ ret' = Average(_buf, _window_size)
    /\ UNCHANGED <<_buf, _window_size, appended, timerVars, clockVars, modelVars>>

BufNext == (\E val \in Samples : append(val)) \/ average

(***************************************************************************)
(* TimerStats                                                              *)
(***************************************************************************)
MaxUpdates == 4     \* update() calls per timer
MaxDuration == 3    \* durations 0..MaxDuration

\* Optional values: Python None is <<>>, a value x is <<x>>.
Some(x) == <<x>>
Nothing == <<>>

TimerInit ==
    /\ _count = 0
    /\ _max = 0
    /\ _min = Nothing
    /\ _total = 0
    /\ recorded = <<>>
    /\ stats = Nothing

\* if duration > self._max: self._max = duration
NewMaxFirstOnly(max, duration) == IF max = 0 THEN duration ELSE max
NewMax(max, duration) == IF duration > max THEN duration ELSE max

\* if self._min is None or duration < self._min: self._min = duration
NewMinFirstOnly(min, duration) == IF min = Nothing THEN Some(duration) ELSE min
NewMin(min, duration) ==
    IF min = Nothing \/ duration < min[1] THEN Some(duration) ELSE min

update(duration) ==
    /\ Len(recorded) < MaxUpdates
    /\ _count' = _count + 1
    /\ _total' = _total + duration
    /\ _max' = NewMax(_max, duration)
    /\ _min' = NewMin(_min, duration)
    /\ recorded' = Append(recorded, duration)
    /\ stats' = Nothing
    /\ UNCHANGED <<bufVars, clockVars, modelVars>>

\* avg = 0 if self._count == 0 else self._total / self._count
Avg(total, count) ==
    IF count = 0 THEN [num |-> 0, den |-> 1] ELSE [num |-> total, den |-> count]

\* The returned dict; each entry is a Python value, None or a number.
GetStats(min, max, total, count) ==
    [min |-> min, max |-> Some(max), total |-> Some(total),
     avg |-> Some(Avg(total, count)), count |-> Some(count)]

get_stats ==
    /\ stats' = Some(GetStats(_min, _max, _total, _count))
    /\ UNCHANGED <<_count, _max, _min, _total, recorded, bufVars, clockVars, modelVars>>

TimerNext == (\E duration \in 0..MaxDuration : update(duration)) \/ get_stats

(***************************************************************************)
(* Simulation time index and load-shape alignment                          *)
(* Times are whole seconds; a datetime is its offset from midnight.        *)
(***************************************************************************)
MaxDurationMin == 2 \* "Simulation duration (min)" in -1..MaxDurationMin
MaxNpts == 3        \* load shapes of 1..MaxNpts points
MaxSteps == 8       \* cap on the iterations of the index loop

StartTimes == {[hour |-> 0, minute |-> 0, second |-> 0],
               [hour |-> 0, minute |-> 0, second |-> 30]}
Resolutions == {-30, 0, 20, 30, 45, 60, 150}
Intervals == {0, 10, 20, 30, 60}
PMultValues == {1, 2}

Settings ==
    [start : StartTimes, resolution : Resolutions,
     duration : -1..MaxDurationMin, loadshape_start : StartTimes]
LoadShapes ==
    UNION {[SInterval : Intervals, Npts : {n}, PMult : [1..n -> PMultValues]]
             : n \in 1..MaxNpts}

\* datetime.strptime(text, DATE_FORMAT)
StrpTime(text) == text.hour * 3600 + text.minute * 60 + text.second
\* timedelta(minutes=m), timedelta(seconds=s)
Minutes(m) == m * 60
Seconds(s) == s

get_start_time(st) == StrpTime(st.start)
get_simulation_resolution(st) == Seconds(st.resolution)
create_time_range_from_settings(st) ==
    [start_time |-> get_start_time(st),
     end_time |-> get_start_time(st) + Minutes(st.duration),
     step_time |-> get_simulation_resolution(st)]

\* while cur_time < end_time
LoopCondInclusive(cur, end) == cur <= end
LoopCond(cur, end) == cur < end

\* create_loadshape_pmult_dataframe: row k is at start + (k-1)*interval
create_loadshape_pmult_dataframe(st, ls) ==
    [k \in 1..ls.Npts |->
        [t |-> StrpTime(st.loadshape_start) + (k - 1) * Seconds(ls.SInterval),
         pmult |-> ls.PMult[k]]]

RECURSIVE Concat(_)
Concat(ss) == IF ss = <<>> THEN <<>> ELSE ss[1] \o Concat(Tail(ss))
SelectRows(frame, t) == SelectSeq(frame, LAMBDA row : row.t = t)

\* df.loc[index]: KeyError when a label of index is not in df's index;
\* otherwise, per label in order, every row of df carrying that label.
LocNearest(frame, index) ==
    [kind |-> "DataFrame",
     rows |-> Concat([i \in 1..Len(index) |->
                 IF SelectRows(frame, index[i]) # <<>>
                 THEN SelectRows(frame, index[i])
                 ELSE IF frame = <<>> THEN <<>> ELSE <<frame[Len(frame)]>>])]
Loc(frame, index) ==
    IF \E i \in 1..Len(index) : SelectRows(frame, index[i]) = <<>>
    THEN [kind |-> "KeyError", rows |-> <<>>]
    ELSE [kind |-> "DataFrame",
          rows |-> Concat([i \in 1..Len(index) |-> SelectRows(frame, index[i])])]

ClockInit ==
    /\ settings \in Settings
    /\ loadshape \in LoadShapes
    /\ pc = "create_loadshape_pmult_dataframe"
    /\ df = <<>>
    /\ start_time = 0 /\ end_time = 0 /\ step_time = 0
    /\ cur_time = 0
    /\ data = <<>>
    /\ simulation_index = <<>>
    /\ result = [kind |-> "None", rows |-> <<>>]

\* line 203
BuildDataFrame ==
    /\ pc = "create_loadshape_pmult_dataframe"
    /\ df' = create_loadshape_pmult_dataframe(settings, loadshape)
    /\ pc' = "create_time_range_from_settings"
    /\ UNCHANGED <<settings, loadshape, start_time, end_time, step_time, cur_time,
                   data, simulation_index, result>>
    /\ UNCHANGED <<bufVars, timerVars, modelVars>>

\* lines 150-152
TimeRange ==
    /\ pc = "create_time_range_from_settings"
    /\ LET r == create_time_range_from_settings(settings)
       IN  /\ start_time' = r.start_time
           /\ end_time' = r.end_time
           /\ step_time' = r.step_time
           /\ cur_time' = r.start_time
    /\ data' = <<>>
    /\ pc' = "while"
    /\ UNCHANGED <<settings, loadshape, df, simulation_index, result>>
    /\ UNCHANGED <<bufVars, timerVars, modelVars>>

\* lines 153-155
LoopBody ==
    /\ pc = "while"
    /\ LoopCond(cur_time, end_time)
    /\ Len(data) < MaxSteps
    /\ data' = Append(data, cur_time)
    /\ cur_time' = cur_time + step_time
    /\ UNCHANGED <<settings, loadshape, pc, df, start_time, end_time, step_time,
                   simulation_index, result>>
    /\ UNCHANGED <<bufVars, timerVars, modelVars>>

\* line 157 and the assignment of line 204
LoopExit ==
    /\ pc = "while"
    /\ ~LoopCond(cur_time, end_time)
    /\ simulation_index' = data
    /\ pc' = "loc"
    /\ UNCHANGED <<settings, loadshape, df, start_time, end_time, step_time,
                   cur_time, data, result>>
    /\ UNCHANGED <<bufVars, timerVars, modelVars>>

\* line 205
Return ==
    /\ pc = "loc"
    /\ result' = Loc(df, simulation_index)
    /\ pc' = "done"
    /\ UNCHANGED <<settings, loadshape, df, start_time, end_time, step_time,
                   cur_time, data, simulation_index>>
    /\ UNCHANGED <<bufVars, timerVars, modelVars>>

ClockNext == BuildDataFrame \/ TimeRange \/ LoopBody \/ LoopExit \/ Return

(***************************************************************************)
(* PvVoltageRideThruModel                                                  *)
(***************************************************************************)
MaxAssignments == 1 \* attribute assignments after construction

RideThroughCategory == {"CATEGORY_I", "CATEGORY_II", "CATEGORY_III"}

\* The .value of a member of the enumerations CategoryI, CategoryII and
\* CategoryIII, kept symbolic.
CategoryI(member) == <<"CategoryI", member>>
CategoryII(member) == <<"CategoryII", member>>
CategoryIII(member) == <<"CategoryIII", member>>
\* A threshold value chosen by the user.
UserValue == <<"user", "value">>

\* kva is declared with ge=0.0 and default 4.0
KvaValues == {-1, 4, 5}
KvaOk(kva) == kva >= 0

\* The keyword arguments: a threshold left out takes its declared default,
\* the CategoryI value.
RawInputs ==
    [kva : KvaValues,
     ride_through_category : RideThroughCategory,
     ov_2_pu : {CategoryI("OV2_PU"), UserValue},
     ov_2_ct_sec : {CategoryI("OV2_CT_SEC"), UserValue},
     ov_1_pu : {CategoryI("OV1_PU"), UserValue},
     ov_1_ct_sec : {CategoryI("OV1_CT_SEC"), UserValue},
     uv_1_pu : {CategoryI("UV1_PU"), UserValue},
     uv_1_ct_sec : {CategoryI("UV1_CT_SEC"), UserValue},
     uv_2_pu : {CategoryI("UV2_PU"), UserValue},
     uv_2_ct_sec : {CategoryI("UV2_CT_SEC"), UserValue}]

Defaults ==
    [kva |-> 4,
     ride_through_category |-> "CATEGORY_I",
     ov_2_pu |-> CategoryI("OV2_PU"),
     ov_2_ct_sec |-> CategoryI("OV2_CT_SEC"),
     ov_1_pu |-> CategoryI("OV1_PU"),
     ov_1_ct_sec |-> CategoryI("OV1_CT_SEC"),
     uv_1_pu |-> CategoryI("UV1_PU"),
     uv_1_ct_sec |-> CategoryI("UV1_CT_SEC"),
     uv_2_pu |-> CategoryI("UV2_PU"),
     uv_2_ct_sec |-> CategoryI("UV2_CT_SEC")]

\* The model validator, run after the fields have been validated.
update_settings_keep_supplied(self) ==
    LET cat1 == self.ride_through_category = "CATEGORY_I"
        cat2 == self.ride_through_category = "CATEGORY_II"
    IN  [self EXCEPT
          !.ov_2_pu = IF cat1 THEN CategoryI("OV2_PU") ELSE IF cat2 THEN CategoryII("OV2_PU") ELSE CategoryIII("OV2_PU"),
          !.ov_1_pu = IF cat1 THEN CategoryI("OV1_PU") ELSE IF cat2 THEN CategoryII("OV1_PU") ELSE CategoryIII("OV1_PU"),
          !.uv_2_pu = IF cat1 THEN CategoryI("UV2_PU") ELSE IF cat2 THEN CategoryII("UV2_PU") ELSE CategoryIII("UV2_PU"),
          !.uv_1_pu = IF cat1 THEN CategoryI("UV1_PU") ELSE IF cat2 THEN CategoryII("UV1_PU") ELSE CategoryIII("UV1_PU"),
          !.ov_2_ct_sec = IF cat1 THEN CategoryI("OV2_CT_SEC") ELSE IF cat2 THEN CategoryII("OV2_CT_SEC") ELSE CategoryIII("OV2_CT_SEC"),
          !.ov_1_ct_sec = IF cat1 THEN CategoryI("OV1_CT_SEC") ELSE IF cat2 THEN CategoryII("OV1_CT_SEC") ELSE CategoryIII("OV1_CT_SEC"),
          !.uv_2_ct_sec = IF cat1 THEN CategoryI("UV2_CT_SEC") ELSE IF cat2 THEN CategoryII("UV2_CT_SEC") ELSE CategoryIII("UV2_CT_SEC"),
          !.uv_1_ct_sec = IF self.uv_1_ct_sec = UserValue THEN UserValue
                          ELSE IF cat1 THEN CategoryI("UV1_CT_SEC") ELSE IF cat2 THEN CategoryII("UV1_CT_SEC") ELSE CategoryIII("UV1_CT_SEC")]
update_settings(self) ==
    LET cat1 == self.ride_through_category = "CATEGORY_I"
        cat2 == self.ride_through_category = "CATEGORY_II"
    IN  [self EXCEPT
          !.ov_2_pu = IF cat1 THEN CategoryI("OV2_PU") ELSE IF cat2 THEN CategoryII("OV2_PU") ELSE CategoryIII("OV2_PU"),
          !.ov_1_pu = IF cat1 THEN CategoryI("OV1_PU") ELSE IF cat2 THEN CategoryII("OV1_PU") ELSE CategoryIII("OV1_PU"),
          !.uv_2_pu = IF cat1 THEN CategoryI("UV2_PU") ELSE IF cat2 THEN CategoryII("UV2_PU") ELSE CategoryIII("UV2_PU"),
          !.uv_1_pu = IF cat1 THEN CategoryI("UV1_PU") ELSE IF cat2 THEN CategoryII("UV1_PU") ELSE CategoryIII("UV1_PU"),
          !.ov_2_ct_sec = IF cat1 THEN CategoryI("OV2_CT_SEC") ELSE IF cat2 THEN CategoryII("OV2_CT_SEC") ELSE CategoryIII("OV2_CT_SEC"),
          !.ov_1_ct_sec = IF cat1 THEN CategoryI("OV1_CT_SEC") ELSE IF cat2 THEN CategoryII("OV1_CT_SEC") ELSE CategoryIII("OV1_CT_SEC"),
          !.uv_2_ct_sec = IF cat1 THEN CategoryI("UV2_CT_SEC") ELSE IF cat2 THEN CategoryII("UV2_CT_SEC") ELSE CategoryIII("UV2_CT_SEC"),
          !.uv_1_ct_sec = IF cat1 THEN CategoryI("UV1_CT_SEC") ELSE IF cat2 THEN CategoryII("UV1_CT_SEC") ELSE CategoryIII("UV1_CT_SEC")]

ModelInit ==
    /\ raw = Defaults
    /\ model = Defaults
    /\ state = "Unvalidated"
    /\ assigned = 0

\* PvVoltageRideThruModel(**kwargs): field validation, then update_settings;
\* a field out of its declared range raises ValidationError and no instance
\* is returned.
Construct(kwargs) ==
    /\ state = "Unvalidated"
    /\ raw' = kwargs
    /\ IF KvaOk(kwargs.kva)
       THEN /\ model' = update_settings(kwargs)
            /\ state' = "Validated"
       ELSE /\ model' = model
            /\ state' = "ValidationError"
    /\ UNCHANGED assigned
    /\ UNCHANGED <<bufVars, timerVars, clockVars>>

\* instance.name = value: the model sets no validate_assignment, so pydantic
\* stores the value and runs no validator.
SetAttr(self, name, value) == [self EXCEPT ![name] = value]

AssignCategory(category) ==
    /\ state = "Validated"
    /\ assigned < MaxAssignments
    /\ model' = SetAttr(model, "ride_through_category", category)
    /\ assigned' = assigned + 1
    /\ UNCHANGED <<raw, state>>
    /\ UNCHANGED <<bufVars, timerVars, clockVars>>

ThresholdNames ==
    {"ov_2_pu", "ov_1_pu", "uv_1_pu", "uv_2_pu",
     "ov_2_ct_sec", "ov_1_ct_sec", "uv_2_ct_sec", "uv_1_ct_sec"}

AssignThreshold(name) ==
    /\ state = "Validated"
    /\ assigned < MaxAssignments
    /\ model' = SetAttr(model, name, UserValue)
    /\ assigned' = assigned + 1
    /\ UNCHANGED <<raw, state>>
    /\ UNCHANGED <<bufVars, timerVars, clockVars>>

AssignKva(kva) ==
    /\ state = "Validated"
    /\ assigned < MaxAssignments
    /\ model' = SetAttr(model, "kva", kva)
    /\ assigned' = assigned + 1
    /\ UNCHANGED <<raw, state>>
    /\ UNCHANGED <<bufVars, timerVars, clockVars>>

ModelNext ==
    \/ \E kwargs \in RawInputs : Construct(kwargs)
    \/ \E category \in RideThroughCategory : AssignCategory(category)
    \/ \E name \in ThresholdNames : AssignThreshold(name)
    \/ \E kva \in KvaValues : AssignKva(kva)

(***************************************************************************)
(* Specifications: one per component, the other components left idle      *)
(***************************************************************************)
BufIdle == BufInit /\ _window_size = 1
ClockIdle ==
    /\ ClockInit
    /\ settings = [start |-> [hour |-> 0, minute |-> 0, second |-> 0],
                   resolution |-> 60, duration |-> 0,
                   loadshape_start |-> [hour |-> 0, minute |-> 0, second |-> 0]]
    /\ loadshape = [SInterval |-> 60, Npts |-> 1, PMult |-> <<1>>]

InitBuf == BufInit /\ TimerInit /\ ClockIdle /\ ModelInit
InitTimer == BufIdle /\ TimerInit /\ ClockIdle /\ ModelInit
InitClock == BufIdle /\ TimerInit /\ ClockInit /\ ModelInit
InitModel == BufIdle /\ TimerInit /\ ClockIdle /\ ModelInit

SpecBuf == InitBuf /\ [][BufNext]_vars
SpecTimer == InitTimer /\ [][TimerNext]_vars
SpecClock == InitClock /\ [][ClockNext]_vars
SpecModel == InitModel /\ [][ModelNext]_vars

(***************************************************************************)
(* Properties of CircularBufferHelper                                      *)
(***************************************************************************)
Averaged == ret.kind # "None"
Capacity == _window_size
Column(samples, j) == [i \in 1..Len(samples) |-> samples[i].v[j]]
SameWidth(samples) ==
    \A i, k \in 1..Len(samples) : Len(samples[i].v) = Len(samples[k].v)

\* C1: with only scalars appended and at least window_size of them, the
\* buffer holds exactly the window_size most recent ones (never more) and
\* average() is their arithmetic mean.
C1_MeanOfMostRecent ==
    /\ Len(_buf) <= Capacity
    /\ AllScalars(appended) =>
        /\ _buf = LastN(appended, Capacity)
        /\ (Averaged /\ Len(appended) >= Capacity) =>
            /\ ret.kind = "float"
            /\ ret.den > 0
            /\ ret.num * Capacity
                 = SumSeq(ScalarValues(LastN(appended, Capacity))) * ret.den

\* capacity 2 fed 1, 2, 3: average() is 5/2
C1_Witness ==
    /\ Capacity = 2
    /\ appended = <<Scalar(1), Scalar(2), Scalar(3)>>
    /\ ret = Float(5, 2)

C2_WarmUpState ==
    (Averaged /\ appended # <<>> /\ AllScalars(appended)) =>
        /\ Len(appended) < Capacity <=> ret = NaN
        /\ Len(appended) >= Capacity <=> ret.kind = "float"
\* C2: in scalar mode average() is NaN after each of the appends 1..n-1 and
\* a number from the n-th append on; a later scalar append never brings the
\* NaN back.
C2_WarmUp ==
    /\ []C2_WarmUpState
    /\ [][(AllScalars(appended') /\ Average(_buf, _window_size).kind = "float")
            => Average(_buf', _window_size').kind = "float"]_vars

\* capacity 3: NaN after the second append
C2_Witness ==
    /\ Capacity = 3
    /\ Len(appended) = 2
    /\ AllScalars(appended)
    /\ ret = NaN

\* C7: every reachable buffer holds samples of one shape.
C7_OneShape ==
    \A i, k \in 1..Len(_buf) :
        /\ _buf[i].kind = _buf[k].kind
        /\ Len(_buf[i].v) = Len(_buf[k].v)

\* C10: with lists of one width appended, average() is a matrix with a row
\* per buffered sample and a column per position; all of it is NaN while
\* fewer than window_size samples are buffered, and with window_size samples
\* only the last row is numeric, each entry the column's mean over them.
C10_TrailingRollingMean ==
    (Averaged /\ appended # <<>> /\ AllLists(appended) /\ SameWidth(appended)) =>
        LET recent == LastN(appended, Capacity)
            w == Len(appended[1].v)
        IN  /\ ret.kind = "ndarray"
            /\ Len(ret.rows) = Len(_buf)
            /\ Len(_buf) = Len(recent)
            /\ \A i \in 1..Len(ret.rows) : Len(ret.rows[i]) = w
            /\ \A i \in 1..Len(ret.rows) : \A j \in 1..w :
                IF i < Capacity THEN ret.rows[i][j].nan
                ELSE /\ ~ret.rows[i][j].nan
                     /\ ret.rows[i][j].den > 0
                     /\ ret.rows[i][j].num * Capacity
                          = SumSeq(Column(recent, j)) * ret.rows[i][j].den

\* capacity 2 after three lists of width 2: first row NaN, last row numeric
C10_Witness ==
    /\ Capacity = 2
    /\ appended = <<List(<<1, 2>>), List(<<2, 2>>), List(<<1, 1>>)>>
    /\ ret.kind = "ndarray"
    /\ ret.rows = << <<CellNaN, CellNaN>>, <<Cell(3, 2), Cell(3, 2)>> >>

(***************************************************************************)
(* Properties of TimerStats                                                *)
(***************************************************************************)
Reported == stats # Nothing
Smallest(s) == CHOOSE x \in {s[i] : i \in 1..Len(s)} : \A i \in 1..Len(s) : x <= s[i]
Largest(s) == CHOOSE x \in {s[i] : i \in 1..Len(s)} : \A i \in 1..Len(s) : x >= s[i]

IsNumber(x) == x # Nothing
C9_Recorded(st) ==
    /\ st.count = Some(Len(recorded))
    /\ st.total = Some(SumSeq(recorded))
    /\ recorded # <<>> =>
        /\ st.min = Some(Smallest(recorded))
        /\ st.max = Some(Largest(recorded))
        /\ IsNumber(st.avg)
        /\ st.avg[1].den > 0
        /\ st.avg[1].num * Len(recorded) = SumSeq(recorded) * st.avg[1].den
        /\ st.min[1] * st.avg[1].den <= st.avg[1].num
        /\ st.avg[1].num <= st.max[1] * st.avg[1].den

\* C9 as stated: with no update yet min, max and avg are all reported as
\* undefined; otherwise min <= avg <= max, min and max are the extremes,
\* total the sum and count the number of updates.
C9_AsStated ==
    Reported =>
        LET st == stats[1]
        IN  /\ C9_Recorded(st)
            /\ recorded = <<>> =>
                /\ ~IsNumber(st.min)
                /\ ~IsNumber(st.max)
                /\ ~IsNumber(st.avg)

\* C9 amended: with no update yet only min is undefined (None); max, avg and
\* total are reported as the number 0.
C9_Amended ==
    Reported =>
        LET st == stats[1]
        IN  /\ C9_Recorded(st)
            /\ recorded = <<>> =>
                /\ ~IsNumber(st.min)
                /\ st.max = Some(0)
                /\ st.avg = Some([num |-> 0, den |-> 1])
                /\ st.total = Some(0)

\* durations 1, 2, 3 give min 1, max 3, total 6, avg 6/3, count 3
C9_Witness ==
    /\ recorded = <<1, 2, 3>>
    /\ stats = Some([min |-> Some(1), max |-> Some(3), total |-> Some(6),
                     avg |-> Some([num |-> 6, den |-> 3]), count |-> Some(3)])

(***************************************************************************)
(* Properties of the simulation time index and the load-shape alignment    *)
(***************************************************************************)
IndexBuilt == pc \in {"loc", "done"}
\* ceil(a / b) for b > 0
CeilDiv(a, b) == -((-a) \div b)

\* C3: for a resolution > 0 the index is start + i*resolution for
\* i = 0..n-1 with n = ceil((end - start) / resolution) and
\* end = start + duration: it begins at start, increases strictly, stays
\* before end, and one more step would reach end; it is empty when the
\* duration is zero.
C3_IndexIsArithmetic ==
    (IndexBuilt /\ settings.resolution > 0) =>
        LET start == StrpTime(settings.start)
            end == start + 60 * settings.duration
            step == settings.resolution
            n == CeilDiv(end - start, step)
            idx == simulation_index
        IN  /\ Len(idx) = (IF n > 0 THEN n ELSE 0)
            /\ \A i \in 1..Len(idx) : idx[i] = start + (i - 1) * step
            /\ \A i \in 1..Len(idx) : idx[i] < end
            /\ \A i \in 1..(Len(idx) - 1) : idx[i] < idx[i + 1]
            /\ idx # <<>> => idx[1] = start /\ idx[Len(idx)] + step >= end
            /\ settings.duration = 0 => idx = <<>>

\* start 00:00:00, resolution 30 s, duration 2 min: 00:00:00, 00:00:30,
\* 00:01:00, 00:01:30 (the 900 s / 60 min example at one thirtieth)
C3_Witness ==
    /\ IndexBuilt
    /\ settings.start = [hour |-> 0, minute |-> 0, second |-> 0]
    /\ settings.resolution = 30
    /\ settings.duration = 2
    /\ simulation_index = <<0, 30, 60, 90>>

SourceTimes == {df[k].t : k \in 1..Len(df)}
SourceRows == {df[k] : k \in 1..Len(df)}
SomeTimestampAbsent == \E i \in 1..Len(simulation_index) : simulation_index[i] \notin SourceTimes
RowsAt(rows, t) == {k \in 1..Len(rows) : rows[k].t = t}
C5_FailsIffAbsent ==
    /\ result.kind \in {"KeyError", "DataFrame"}
    /\ result.kind = "KeyError" <=> SomeTimestampAbsent

\* C5 as stated: the alignment fails exactly when a simulation timestamp is
\* absent from the source index; otherwise the table's index is the clock's
\* sequence in order, each row the source row at that timestamp.
C5_AsStated ==
    pc = "done" =>
        /\ C5_FailsIffAbsent
        /\ result.kind = "DataFrame" =>
            /\ Len(result.rows) = Len(simulation_index)
            /\ \A i \in 1..Len(result.rows) :
                /\ result.rows[i].t = simulation_index[i]
                /\ result.rows[i] \in SourceRows

\* C5 amended: the alignment fails exactly when a simulation timestamp is
\* absent from the source index; otherwise the table holds, in the clock's
\* order, every source row whose timestamp is in the clock's sequence --
\* one row per simulation timestamp when the source timestamps are distinct,
\* and all the rows of a repeated source timestamp (sampling interval 0).
C5_Amended ==
    pc = "done" =>
        /\ C5_FailsIffAbsent
        /\ result.kind = "DataFrame" =>
            LET rows == result.rows
            IN  /\ \A i \in 1..Len(rows) : rows[i] \in SourceRows
                /\ \A i \in 1..Len(simulation_index) :
                    /\ Cardinality(RowsAt(rows, simulation_index[i]))
                         = Cardinality(RowsAt(df, simulation_index[i]))
                    /\ [k \in 1..Cardinality(RowsAt(rows, simulation_index[i])) |->
                          SelectSeq(rows, LAMBDA r : r.t = simulation_index[i])[k]]
                         = SelectSeq(df, LAMBDA r : r.t = simulation_index[i])
                /\ \A i \in 1..Len(rows) :
                    \E k \in 1..Len(simulation_index) : rows[i].t = simulation_index[k]
                /\ \A i \in 1..(Len(rows) - 1) : rows[i].t <= rows[i + 1].t
                /\ Cardinality(SourceTimes) = Len(df) =>
                    /\ Len(rows) = Len(simulation_index)
                    /\ \A i \in 1..Len(rows) : rows[i].t = simulation_index[i]

\* source interval 20 s against a resolution of 30 s, both starting at
\* 00:00:00, over one minute: 00:00:30 is not in the source (the 10 min /
\* 15 min example at one thirtieth)
C5_Witness ==
    /\ pc = "done"
    /\ settings.start = settings.loadshape_start
    /\ settings.resolution = 30
    /\ settings.duration = 1
    /\ loadshape.SInterval = 20
    /\ loadshape.Npts = 3
    /\ result.kind = "KeyError"

\* C8: a resolution that is not > 0 is rejected with InvalidConfig when the
\* time range is built, before any timestamp is generated.
C8_NonPositiveRejected ==
    (settings.resolution <= 0 /\ pc \in {"while", "loc", "done"}) =>
        /\ result.kind = "InvalidConfig"
        /\ data = <<>>

(***************************************************************************)
(* Properties of PvVoltageRideThruModel                                    *)
(***************************************************************************)
Standard(category, member) ==
    IF category = "CATEGORY_I" THEN CategoryI(member)
    ELSE IF category = "CATEGORY_II" THEN CategoryII(member)
    ELSE CategoryIII(member)
HasStandardsOf(m, category) ==
    /\ m.ov_2_pu = Standard(category, "OV2_PU")
    /\ m.ov_1_pu = Standard(category, "OV1_PU")
    /\ m.uv_1_pu = Standard(category, "UV1_PU")
    /\ m.uv_2_pu = Standard(category, "UV2_PU")
    /\ m.ov_2_ct_sec = Standard(category, "OV2_CT_SEC")
    /\ m.ov_1_ct_sec = Standard(category, "OV1_CT_SEC")
    /\ m.uv_2_ct_sec = Standard(category, "UV2_CT_SEC")
    /\ m.uv_1_ct_sec = Standard(category, "UV1_CT_SEC")

\* C4: the instance construction returns has all eight thresholds equal to
\* the standards tuple of its ride_through_category, whatever thresholds
\* were supplied, and its other fields are the supplied ones.
C4_ThresholdsFromCategory ==
    (state = "Validated" /\ assigned = 0) =>
        /\ HasStandardsOf(model, raw.ride_through_category)
        /\ model.ride_through_category = raw.ride_through_category
        /\ model.kva = raw.kva

\* category II constructed with a user value for each of the eight
C4_Witness ==
    /\ state = "Validated"
    /\ assigned = 0
    /\ raw.ride_through_category = "CATEGORY_II"
    /\ \A name \in ThresholdNames : raw[name] = UserValue
    /\ model.uv_1_ct_sec = CategoryII("UV1_CT_SEC")

\* C6: in every state reachable by construction followed by attribute
\* assignments the eight thresholds are the standards tuple of the current
\* ride_through_category.
C6_AlwaysDerived ==
    state = "Validated" => HasStandardsOf(model, model.ride_through_category)

====
